---- MODULE Spec2Model ----
(***************************************************************************)
(* State-machine model of the policy / claim lifecycle API of              *)
(* src/insurance_app/routers/routers_policy.py.                            *)
(*                                                                         *)
(* The two module-level dictionaries policies_db and claims_db are the     *)
(* state.  A Python dict keeps insertion order and assigning to an         *)
(* existing key keeps the key's position, so each dictionary is modelled   *)
(* as the sequence of its values in insertion order; the key of a value is *)
(* its "id" / "claim_id" field (the handlers always store a record under   *)
(* the id the record carries).                                             *)
(*                                                                         *)
(* Every endpoint is an `async def` coroutine whose body contains no       *)
(* `await`: once the event loop starts a handler it runs to its return or  *)
(* raise before any other handler runs.  Spec therefore has one atomic     *)
(* action per handler; RaceSpec models the event loop explicitly for two   *)
(* create_policy handlers in flight.                                       *)
(***************************************************************************)
EXTENDS Integers, Sequences, FiniteSets, TLC

VARIABLES
    policies_db,   \* routers_policy.py:59, values in insertion order
    claims_db,     \* routers_policy.py:60, values in insertion order
    clock,         \* the instant datetime.utcnow() returns to the next request
    last,          \* the request handled last and the response it got
    cancel_applied, \* history: the ids delete_policy has answered 204 for
    handlers,      \* RaceSpec: the create_policy coroutines in flight
    running,       \* RaceSpec: the coroutine the event loop is executing (0: none)
    fake_products_db,      \* routers_product.py:61, the list of products
    product_ids_assigned,  \* history: the ids given to products, in order
    clients_db     \* routers_client.py:63, values in insertion order

\* the stores of the product and the client router
directory == <<fake_products_db, product_ids_assigned, clients_db>>

vars == <<policies_db, claims_db, clock, last, cancel_applied, handlers, running,
          fake_products_db, product_ids_assigned, clients_db>>

(***************************************************************************)
(* Bounds of the exploration.                                              *)
(***************************************************************************)
\* number of requests in a run; the k-th request is handled at instant k
MaxClock == 4
\* number of distinct identifiers generate_policy_id can return
NumPolicyIds == 3
\* number of distinct identifiers generate_claim_id can return
NumClaimIds == 2

(***************************************************************************)
(* Python values.  None is encoded per type, so that a field holding None  *)
(* can be compared with the field's ordinary values.                       *)
(***************************************************************************)
NoneStr == "<None>"
NoneNum == -1
NoneDate == <<0, 0, 0>>

\* datetime.date values are <<year, month, day>>
DateLt(a, b) ==
    \/ a[1] < b[1]
    \/ a[1] = b[1] /\ a[2] < b[2]
    \/ a[1] = b[1] /\ a[2] = b[2] /\ a[3] < b[3]

DateLe(a, b) == a = b \/ DateLt(a, b)

IsLeap(y) == (y % 4 = 0 /\ y % 100 # 0) \/ y % 400 = 0

DaysInMonth(y, m) ==
    IF m = 2 THEN (IF IsLeap(y) THEN 29 ELSE 28)
    ELSE IF m \in {4, 6, 9, 11} THEN 30 ELSE 31

Min(a, b) == IF a < b THEN a ELSE b

\* a month addition that drops the whole years of the month count
AddMonthsWithinYear(d, n) ==
    LET months == n % 12
        m0 == d[2] + months
        y == IF m0 > 12 THEN d[1] + 1 ELSE d[1]
        m == IF m0 > 12 THEN m0 - 12 ELSE m0
    IN  <<y, m, Min(DaysInMonth(y, m), d[3])>>

\* a month addition that keeps a month's last day a month's last day
AddMonthsEndOfMonth(d, n) ==
    LET years == n \div 12
        months == n % 12
        y0 == d[1] + years
        m0 == d[2] + months
        y == IF m0 > 12 THEN y0 + 1 ELSE y0
        m == IF m0 > 12 THEN m0 - 12 ELSE m0
    IN  IF d[3] = DaysInMonth(d[1], d[2])
        THEN <<y, m, DaysInMonth(y, m)>>
        ELSE <<y, m, Min(DaysInMonth(y, m), d[3])>>

\* date + relativedelta(months=n): the month count is normalised into years
\* and months, the month is carried into the year, and the day is clamped to
\* the length of the target month.
AddMonths(d, n) ==
    LET years == n \div 12
        months == n % 12
        y0 == d[1] + years
        m0 == d[2] + months
        y == IF m0 > 12 THEN y0 + 1 ELSE y0
        m == IF m0 > 12 THEN m0 - 12 ELSE m0
    IN  <<y, m, Min(DaysInMonth(y, m), d[3])>>

(***************************************************************************)
(* Request inputs.                                                         *)
(***************************************************************************)
PolicyIds == 1..NumPolicyIds
ClaimIds == 1..NumClaimIds

PolicyNumbers == {"P-1", "P-2"}
Dates == {<<2024, 1, 1>>, <<2024, 1, 31>>}
CreateStatuses == {"active", "cancelled"}

\* the bodies PolicyCreate accepts (premium_amount and coverage_amount > 0,
\* status any string, "active" when omitted)
PolicyCreateInputs ==
    [policy_number : PolicyNumbers,
     policy_type : {"auto"},
     customer_id : {"C-1"},
     premium_amount : {100},
     coverage_amount : {1000},
     start_date : Dates,
     end_date : Dates,
     status : CreateStatuses]

UpdateFields == {"policy_type", "premium_amount", "coverage_amount", "end_date", "status"}

\* one value per field of PolicyUpdate; every field is Optional, so an explicit
\* null passes validation and is kept by dict(exclude_unset=True)
PolicyUpdateValues ==
    [policy_type : {NoneStr, "home"},
     premium_amount : {NoneNum, 150},
     coverage_amount : {NoneNum, 500},
     end_date : {NoneDate, <<2024, 1, 1>>, <<2024, 2, 29>>},
     status : {"active", "suspended"}]

\* the sets of fields a request sets: none, any single field, and two
\* multi-field payloads
UpdateFieldSets ==
    {{}} \cup {{f} : f \in UpdateFields}
         \cup {{"coverage_amount", "end_date"}, {"policy_type", "premium_amount", "status"}}

\* policy_update.dict(exclude_unset=True): a mapping from the fields the
\* request set to their values
PolicyUpdateInputs ==
    {[f \in S |-> r[f]] :
        S \in UpdateFieldSets,
        r \in PolicyUpdateValues}

RenewalMonths == {1, 2, 12}

\* renewal_months: int = Query(12, ge=1, le=60)
MinRenewalMonths == 1
MaxRenewalMonths == 60
AllRenewalMonths == MinRenewalMonths..MaxRenewalMonths

\* the bodies ClaimRequest accepts (claim_amount > 0); the body's policy_id
\* is a field of its own, besides the path parameter
ClaimRequestInputs ==
    [policy_id : PolicyIds,
     claim_amount : {500, 1000, 1001},
     incident_date : {<<2024, 1, 15>>},
     description : {"damage"},
     claim_type : {"collision"}]

(***************************************************************************)
(* Dictionary helpers.                                                     *)
(***************************************************************************)
PolicyKeys == {policies_db[i].id : i \in DOMAIN policies_db}
ClaimKeys == {claims_db[i].claim_id : i \in DOMAIN claims_db}

\* policies_db[policy_id]
Policy(policy_id) ==
    policies_db[CHOOSE i \in DOMAIN policies_db : policies_db[i].id = policy_id]

\* a store that stamps every record with the time of the write
StorePolicyStamping(db, policy_data) ==
    IF \E i \in DOMAIN db : db[i].id = policy_data.id
    THEN [i \in DOMAIN db |->
            IF db[i].id = policy_data.id THEN policy_data
            ELSE [db[i] EXCEPT !.updated_at = policy_data.updated_at]]
    ELSE Append(db, policy_data)

\* policies_db[policy_id] = policy_data
StorePolicy(db, policy_data) ==
    IF \E i \in DOMAIN db : db[i].id = policy_data.id
    THEN [i \in DOMAIN db |-> IF db[i].id = policy_data.id THEN policy_data ELSE db[i]]
    ELSE Append(db, policy_data)

\* claims_db[claim_id] = claim_data
StoreClaim(db, claim_data) ==
    IF \E i \in DOMAIN db : db[i].claim_id = claim_data.claim_id
    THEN [i \in DOMAIN db |-> IF db[i].claim_id = claim_data.claim_id THEN claim_data ELSE db[i]]
    ELSE Append(db, claim_data)

\* PolicyResponse(**policy_data) validates the record: a None in a required
\* field raises, and the request ends in a 500
ResponseBuilds(policy_data) ==
    /\ policy_data.policy_type # NoneStr
    /\ policy_data.premium_amount # NoneNum
    /\ policy_data.coverage_amount # NoneNum
    /\ policy_data.end_date # NoneDate
    /\ policy_data.status # NoneStr

\* PolicyResponse(**policy_data): the fields of the response model, taken
\* from the record
PolicyResponse(policy_data) ==
    [id |-> policy_data.id,
     policy_number |-> policy_data.policy_number,
     policy_type |-> policy_data.policy_type,
     customer_id |-> policy_data.customer_id,
     premium_amount |-> policy_data.premium_amount,
     coverage_amount |-> policy_data.coverage_amount,
     start_date |-> policy_data.start_date,
     end_date |-> policy_data.end_date,
     status |-> policy_data.status,
     created_at |-> policy_data.created_at,
     updated_at |-> policy_data.updated_at]

\* ClaimResponse(**claim): the response model has no claim_type
ClaimResponse(claim) ==
    [claim_id |-> claim.claim_id,
     policy_id |-> claim.policy_id,
     claim_amount |-> claim.claim_amount,
     status |-> claim.status,
     submitted_at |-> claim.submitted_at,
     incident_date |-> claim.incident_date,
     description |-> claim.description]

\* the body of a response that carries no model: an error, or a 204
NoResult == "<no body>"

\* what the client of the last request observed: the endpoint, the path
\* parameter (the new id for a successful create_policy), the status code,
\* the reason and the body
Reply(op, policy_id, code, detail, result) ==
    [op |-> op, policy_id |-> policy_id, code |-> code, detail |-> detail,
     result |-> result]

Response(op, policy_id, code, detail) == Reply(op, policy_id, code, detail, NoResult)

(***************************************************************************)
(* create_policy                                                           *)
(***************************************************************************)
\* The tokens of generate_policy_id and generate_claim_id are opaque to every
\* handler (uuid4 does not repeat one in a run), so the model names them in
\* the order of issue: the next token is the smallest one not in use.
NextToken(tokens, used) ==
    IF tokens \ used = {} THEN {}
    ELSE {CHOOSE t \in tokens \ used : \A u \in tokens \ used : t <= u}

\* generate_policy_id
FreshPolicyIds == NextToken(PolicyIds, PolicyKeys)

\* a dates check that lets start_date == end_date through
DatesInvalidStrict(policy) == DateLt(policy.end_date, policy.start_date)

\* policy.start_date >= policy.end_date
DatesInvalid(policy) == ~DateLt(policy.start_date, policy.end_date)

\* a scan that skips the policies that are not active
DuplicateAmongActive(db, policy_number) ==
    \E i \in DOMAIN db : db[i].policy_number = policy_number /\ db[i].status = "active"

\* the scan of policies_db.values() for policy.policy_number
DuplicatePolicyNumber(db, policy_number) ==
    \E i \in DOMAIN db : db[i].policy_number = policy_number

\* a record that takes its coverage from the premium
PolicyDataOfPremium(policy_id, policy, now) ==
    [id |-> policy_id,
     policy_number |-> policy.policy_number,
     policy_type |-> policy.policy_type,
     customer_id |-> policy.customer_id,
     premium_amount |-> policy.premium_amount,
     coverage_amount |-> policy.premium_amount,
     start_date |-> policy.start_date,
     end_date |-> policy.end_date,
     status |-> policy.status,
     created_at |-> now,
     updated_at |-> now]

PolicyData(policy_id, policy, now) ==
    [id |-> policy_id,
     policy_number |-> policy.policy_number,
     policy_type |-> policy.policy_type,
     customer_id |-> policy.customer_id,
     premium_amount |-> policy.premium_amount,
     coverage_amount |-> policy.coverage_amount,
     start_date |-> policy.start_date,
     end_date |-> policy.end_date,
     status |-> policy.status,
     created_at |-> now,
     updated_at |-> now]

create_policy(policy) ==
    /\ clock < MaxClock
    /\ running = 0
    /\ UNCHANGED directory
    /\ clock' = clock + 1
    /\ UNCHANGED <<claims_db, cancel_applied, handlers, running>>
    /\ IF DatesInvalid(policy)
       THEN /\ last' = Response("create_policy", 0, 400, "end date must be after start date")
            /\ UNCHANGED policies_db
       ELSE IF DuplicatePolicyNumber(policies_db, policy.policy_number)
       THEN /\ last' = Response("create_policy", 0, 409, "policy number already exists")
            /\ UNCHANGED policies_db
       ELSE \E policy_id \in FreshPolicyIds :
            /\ policies_db' = StorePolicy(policies_db, PolicyData(policy_id, policy, clock))
            /\ last' = Reply("create_policy", policy_id, 201, "created",
                             PolicyResponse(PolicyData(policy_id, policy, clock)))

(***************************************************************************)
(* update_policy                                                           *)
(***************************************************************************)
\* an update loop that leaves updated_at as it was
ApplyUpdateKeepingStamp(policy_data, update_data, now) ==
    [f \in DOMAIN policy_data |->
        IF f \in DOMAIN update_data THEN update_data[f] ELSE policy_data[f]]

\* the loop over update_data.items() followed by the updated_at assignment
ApplyUpdate(policy_data, update_data, now) ==
    [f \in DOMAIN policy_data |->
        IF f = "updated_at" THEN now
        ELSE IF f \in DOMAIN update_data THEN update_data[f]
        ELSE policy_data[f]]

\* an end date check that lets end_date == start_date through
EndDateInvalidStrict(end_date, start_date) == DateLt(end_date, start_date)

\* update_data["end_date"] <= start_date
EndDateInvalid(end_date, start_date) == DateLe(end_date, start_date)

update_policy(policy_id, update_data) ==
    /\ clock < MaxClock
    /\ running = 0
    /\ UNCHANGED directory
    /\ clock' = clock + 1
    /\ UNCHANGED <<claims_db, cancel_applied, handlers, running>>
    /\ IF policy_id \notin PolicyKeys
       THEN /\ last' = Response("update_policy", policy_id, 404, "not found")
            /\ UNCHANGED policies_db
       ELSE LET policy_data == Policy(policy_id) IN
            IF "end_date" \in DOMAIN update_data /\ update_data.end_date = NoneDate
            THEN \* None <= start_date raises TypeError
                 /\ last' = Response("update_policy", policy_id, 500, "TypeError")
                 /\ UNCHANGED policies_db
            ELSE IF "end_date" \in DOMAIN update_data
                    /\ EndDateInvalid(update_data.end_date, policy_data.start_date)
            THEN /\ last' = Response("update_policy", policy_id, 400, "end date must be after start date")
                 /\ UNCHANGED policies_db
            ELSE LET updated == ApplyUpdate(policy_data, update_data, clock) IN
                 /\ policies_db' = StorePolicy(policies_db, updated)
                 /\ last' = IF ResponseBuilds(updated)
                            THEN Reply("update_policy", policy_id, 200, "updated",
                                       PolicyResponse(updated))
                            ELSE Response("update_policy", policy_id, 500, "ValidationError")

(***************************************************************************)
(* delete_policy                                                           *)
(***************************************************************************)
\* a cancel that turns an already cancelled policy away
delete_policy_once(policy_id) ==
    /\ clock < MaxClock
    /\ running = 0
    /\ UNCHANGED directory
    /\ clock' = clock + 1
    /\ UNCHANGED <<claims_db, handlers, running>>
    /\ IF policy_id \notin PolicyKeys
       THEN /\ last' = Response("delete_policy", policy_id, 404, "not found")
            /\ UNCHANGED <<policies_db, cancel_applied>>
       ELSE IF Policy(policy_id).status = "cancelled"
       THEN /\ last' = Response("delete_policy", policy_id, 400, "already cancelled")
            /\ UNCHANGED <<policies_db, cancel_applied>>
       ELSE /\ policies_db' = StorePolicy(policies_db,
                    [Policy(policy_id) EXCEPT !.status = "cancelled", !.updated_at = clock])
            /\ cancel_applied' = cancel_applied \cup {policy_id}
            /\ last' = Response("delete_policy", policy_id, 204, "no content")

\* a cancel that removes the record
delete_policy_hard(policy_id) ==
    /\ clock < MaxClock
    /\ running = 0
    /\ UNCHANGED directory
    /\ clock' = clock + 1
    /\ UNCHANGED <<claims_db, handlers, running>>
    /\ IF policy_id \notin PolicyKeys
       THEN /\ last' = Response("delete_policy", policy_id, 404, "not found")
            /\ UNCHANGED <<policies_db, cancel_applied>>
       ELSE /\ policies_db' = SelectSeq(policies_db, LAMBDA p : p.id # policy_id)
            /\ cancel_applied' = cancel_applied \cup {policy_id}
            /\ last' = Response("delete_policy", policy_id, 204, "no content")

delete_policy(policy_id) ==
    /\ clock < MaxClock
    /\ running = 0
    /\ UNCHANGED directory
    /\ clock' = clock + 1
    /\ UNCHANGED <<claims_db, handlers, running>>
    /\ IF policy_id \notin PolicyKeys
       THEN /\ last' = Response("delete_policy", policy_id, 404, "not found")
            /\ UNCHANGED <<policies_db, cancel_applied>>
       ELSE LET policy_data == Policy(policy_id) IN
            /\ policies_db' = StorePolicy(policies_db,
                    [policy_data EXCEPT !.status = "cancelled", !.updated_at = clock])
            /\ cancel_applied' = cancel_applied \cup {policy_id}
            /\ last' = Response("delete_policy", policy_id, 204, "no content")

(***************************************************************************)
(* renew_policy                                                            *)
(***************************************************************************)
\* a renewal gate that only turns expired policies away
NotExpired(policy_data) == policy_data.status # "expired"

\* the renewal gate: the negation of policy_data["status"] != "active"
IsActive(policy_data) == policy_data.status = "active"

renew_policy(policy_id, renewal_months) ==
    /\ clock < MaxClock
    /\ running = 0
    /\ UNCHANGED directory
    /\ clock' = clock + 1
    /\ UNCHANGED <<claims_db, cancel_applied, handlers, running>>
    /\ IF policy_id \notin PolicyKeys
       THEN /\ last' = Response("renew_policy", policy_id, 404, "not found")
            /\ UNCHANGED policies_db
       ELSE LET policy_data == Policy(policy_id) IN
            IF ~IsActive(policy_data)
            THEN /\ last' = Response("renew_policy", policy_id, 400, "only active policies can be renewed")
                 /\ UNCHANGED policies_db
            ELSE LET renewed == [policy_data EXCEPT
                                    !.end_date = AddMonths(policy_data.end_date, renewal_months),
                                    !.updated_at = clock] IN
                 /\ policies_db' = StorePolicy(policies_db, renewed)
                 /\ last' = IF ResponseBuilds(renewed)
                            THEN Reply("renew_policy", policy_id, 200, "renewed",
                                       PolicyResponse(renewed))
                            ELSE Response("renew_policy", policy_id, 500, "ValidationError")

(***************************************************************************)
(* create_claim                                                            *)
(***************************************************************************)
\* generate_claim_id
FreshClaimIds == NextToken(ClaimIds, ClaimKeys)

\* a coverage check that rejects the boundary
ReachesCoverage(claim_amount, coverage_amount) == claim_amount >= coverage_amount

\* claim_request.claim_amount > policy_data["coverage_amount"]
ExceedsCoverage(claim_amount, coverage_amount) == claim_amount > coverage_amount

\* a claim record that is stored as already approved
ClaimDataApproved(claim_id, policy_id, claim_request, now) ==
    [claim_id |-> claim_id,
     policy_id |-> policy_id,
     claim_amount |-> claim_request.claim_amount,
     status |-> "approved",
     submitted_at |-> now,
     incident_date |-> claim_request.incident_date,
     description |-> claim_request.description,
     claim_type |-> claim_request.claim_type]

ClaimData(claim_id, policy_id, claim_request, now) ==
    [claim_id |-> claim_id,
     policy_id |-> policy_id,
     claim_amount |-> claim_request.claim_amount,
     status |-> "pending",
     submitted_at |-> now,
     incident_date |-> claim_request.incident_date,
     description |-> claim_request.description,
     claim_type |-> claim_request.claim_type]

\* a status check that lets every policy through to the coverage check
AcceptsAnyPolicy(policy_data) == policy_data.status = policy_data.status

\* the negation of policy_data["status"] != "active"
AcceptsClaims(policy_data) == policy_data.status = "active"

create_claim(policy_id, claim_request) ==
    /\ clock < MaxClock
    /\ running = 0
    /\ UNCHANGED directory
    /\ clock' = clock + 1
    /\ UNCHANGED <<policies_db, cancel_applied, handlers, running>>
    /\ IF policy_id \notin PolicyKeys
       THEN /\ last' = Response("create_claim", policy_id, 404, "not found")
            /\ UNCHANGED claims_db
       ELSE LET policy_data == Policy(policy_id) IN
            IF ~AcceptsClaims(policy_data)
            THEN /\ last' = Response("create_claim", policy_id, 400, "claims can only be created for active policies")
                 /\ UNCHANGED claims_db
            ELSE IF policy_data.coverage_amount = NoneNum
            THEN \* float > None raises TypeError
                 /\ last' = Response("create_claim", policy_id, 500, "TypeError")
                 /\ UNCHANGED claims_db
            ELSE IF ExceedsCoverage(claim_request.claim_amount, policy_data.coverage_amount)
            THEN /\ last' = Response("create_claim", policy_id, 400, "claim amount exceeds policy coverage limit")
                 /\ UNCHANGED claims_db
            ELSE \E claim_id \in FreshClaimIds :
                 /\ claims_db' = StoreClaim(claims_db, ClaimData(claim_id, policy_id, claim_request, clock))
                 /\ last' = Reply("create_claim", policy_id, 201, "created",
                                  ClaimResponse(ClaimData(claim_id, policy_id, claim_request, clock)))

(***************************************************************************)
(* The read endpoints: get_policy, get_policy_claims, get_policy_summary.  *)
(* They read no clock and write no store.                                  *)
(***************************************************************************)
get_policy(policy_id) ==
    /\ running = 0
    /\ UNCHANGED directory
    /\ UNCHANGED <<policies_db, claims_db, clock, cancel_applied, handlers, running>>
    /\ last' = IF policy_id \notin PolicyKeys
               THEN Response("get_policy", policy_id, 404, "not found")
               ELSE IF ~ResponseBuilds(Policy(policy_id))
               THEN Response("get_policy", policy_id, 500, "ValidationError")
               ELSE Reply("get_policy", policy_id, 200, "ok",
                          PolicyResponse(Policy(policy_id)))

\* [claim for claim in claims_db.values() if claim["policy_id"] == policy_id]
PolicyClaims(policy_id) ==
    SelectSeq(claims_db, LAMBDA claim : claim.policy_id = policy_id)

\* a claims listing that does not look the policy up
get_policy_claims_unchecked(policy_id) ==
    /\ running = 0
    /\ UNCHANGED directory
    /\ UNCHANGED <<policies_db, claims_db, clock, cancel_applied, handlers, running>>
    /\ last' = Reply("get_policy_claims", policy_id, 200, "ok",
                     [k \in DOMAIN PolicyClaims(policy_id) |->
                        ClaimResponse(PolicyClaims(policy_id)[k])])

get_policy_claims(policy_id) ==
    /\ running = 0
    /\ UNCHANGED directory
    /\ UNCHANGED <<policies_db, claims_db, clock, cancel_applied, handlers, running>>
    /\ last' = IF policy_id \notin PolicyKeys
               THEN Response("get_policy_claims", policy_id, 404, "not found")
               ELSE Reply("get_policy_claims", policy_id, 200, "ok",
                          [k \in DOMAIN PolicyClaims(policy_id) |->
                             ClaimResponse(PolicyClaims(policy_id)[k])])

\* sum(claim["claim_amount"] for claim in policy_claims)
RECURSIVE SumClaimAmounts(_)
SumClaimAmounts(policy_claims) ==
    IF policy_claims = <<>> THEN 0
    ELSE Head(policy_claims).claim_amount + SumClaimAmounts(Tail(policy_claims))

\* len([c for c in policy_claims if c["status"] == status])
CountWithStatus(policy_claims, status) ==
    Len(SelectSeq(policy_claims, LAMBDA c : c.status = status))

\* (total_claimed_amount / coverage_amount) * 100, kept exact as the fraction
\* num / den (the rounding of the float division is not modelled)
UtilizationRate(total_claimed_amount, coverage_amount) ==
    [num |-> total_claimed_amount * 100, den |-> coverage_amount]

\* the dictionary get_policy_summary returns
PolicySummary(policy_data, policy_claims) ==
    [policy |-> PolicyResponse(policy_data),
     claims_summary |->
        [total_claims |-> Len(policy_claims),
         total_claimed_amount |-> SumClaimAmounts(policy_claims),
         pending_claims |-> CountWithStatus(policy_claims, "pending"),
         approved_claims |-> CountWithStatus(policy_claims, "approved")],
     utilization_rate |->
        UtilizationRate(SumClaimAmounts(policy_claims), policy_data.coverage_amount)]

get_policy_summary(policy_id) ==
    /\ running = 0
    /\ UNCHANGED directory
    /\ UNCHANGED <<policies_db, claims_db, clock, cancel_applied, handlers, running>>
    /\ last' = IF policy_id \notin PolicyKeys
               THEN Response("get_policy_summary", policy_id, 404, "not found")
               ELSE IF ~ResponseBuilds(Policy(policy_id))
               THEN \* "policy": PolicyResponse(**policy_data) is built first
                    Response("get_policy_summary", policy_id, 500, "ValidationError")
               ELSE Reply("get_policy_summary", policy_id, 200, "ok",
                          PolicySummary(Policy(policy_id), PolicyClaims(policy_id)))

(***************************************************************************)
(* routers_product.py: the product store is a list of records, filled at   *)
(* import with three products.                                             *)
(***************************************************************************)
\* number of distinct product ids a request can name
NumProductIds == 4
ProductIds == 1..NumProductIds

\* fake_products_db as the module builds it
InitialProducts ==
    <<[id |-> 1, name |-> "Comprehensive Life Insurance",
       description |-> "Complete life insurance coverage with flexible premium options",
       product_type |-> "life", base_premium |-> 150, coverage_amount |-> 100000,
       deductible |-> 0, terms_conditions |-> "Standard terms apply with 30-day grace period",
       status |-> "active", created_at |-> 0, updated_at |-> 0],
      [id |-> 2, name |-> "Premium Health Insurance",
       description |-> "Comprehensive health coverage including dental and vision",
       product_type |-> "health", base_premium |-> 300, coverage_amount |-> 50000,
       deductible |-> 500, terms_conditions |-> "Network providers required for full coverage",
       status |-> "active", created_at |-> 0, updated_at |-> 0],
      [id |-> 3, name |-> "Auto Protection Plus",
       description |-> "Full coverage auto insurance with roadside assistance",
       product_type |-> "auto", base_premium |-> 120, coverage_amount |-> 25000,
       deductible |-> 250, terms_conditions |-> "Valid driver's license required",
       status |-> "active", created_at |-> 0, updated_at |-> 0]>>

\* the bodies ProductCreate accepts
ProductCreateInputs ==
    [name : {"Comprehensive Life Insurance", "Travel Cover"},
     description : {"Cover for trips abroad"},
     product_type : {"life"},
     base_premium : {80},
     coverage_amount : {10000},
     deductible : {0},
     terms_conditions : {"Standard terms"},
     status : {"active"}]

\* product_update.dict(exclude_unset=True): every field of ProductUpdate is
\* Optional, so an explicit null passes validation
ProductUpdateInputs ==
    {<<>>}
    \cup {[name |-> n] : n \in {"Premium Health Insurance", "Travel Cover", NoneStr}}
    \cup {[base_premium |-> 200]}
    \cup {[name |-> "Travel Cover", status |-> "inactive"]}

ProductStatuses == {"active", "inactive", "discontinued"}

ProductKeys == {fake_products_db[i].id : i \in DOMAIN fake_products_db}

RECURSIVE MaxOf(_)
MaxOf(S) == IF S = {} THEN 0
            ELSE LET x == CHOOSE x \in S : TRUE
                     m == MaxOf(S \ {x})
                 IN  IF x > m THEN x ELSE m

\* get_next_id: max([p["id"] for p in fake_products_db], default=0) + 1
get_next_id == MaxOf(ProductKeys) + 1

\* the position of the first product with the id
ProductIndex(product_id) ==
    CHOOSE i \in DOMAIN fake_products_db :
        /\ fake_products_db[i].id = product_id
        /\ \A j \in DOMAIN fake_products_db :
            fake_products_db[j].id = product_id => i <= j

\* find_product_by_id: the first product with the id
find_product_by_id(product_id) == fake_products_db[ProductIndex(product_id)]

\* response_model=Product validates the returned dictionary
ProductBuilds(product) == product.name # NoneStr

create_product(product) ==
    /\ clock < MaxClock
    /\ running = 0
    /\ clock' = clock + 1
    /\ UNCHANGED <<policies_db, claims_db, cancel_applied, handlers, running, clients_db>>
    /\ IF \E i \in DOMAIN fake_products_db : fake_products_db[i].name = product.name
       THEN /\ last' = Response("create_product", 0, 400, "product with this name already exists")
            /\ UNCHANGED <<fake_products_db, product_ids_assigned>>
       ELSE LET new_product ==
                    [id |-> get_next_id,
                     name |-> product.name,
                     description |-> product.description,
                     product_type |-> product.product_type,
                     base_premium |-> product.base_premium,
                     coverage_amount |-> product.coverage_amount,
                     deductible |-> product.deductible,
                     terms_conditions |-> product.terms_conditions,
                     status |-> product.status,
                     created_at |-> clock,
                     updated_at |-> clock]
            IN  /\ fake_products_db' = Append(fake_products_db, new_product)
                /\ product_ids_assigned' = Append(product_ids_assigned, new_product.id)
                /\ last' = Reply("create_product", new_product.id, 201, "created", new_product)

update_product(product_id, update_data) ==
    /\ clock < MaxClock
    /\ running = 0
    /\ clock' = clock + 1
    /\ UNCHANGED <<policies_db, claims_db, cancel_applied, handlers, running, clients_db,
                   product_ids_assigned>>
    /\ IF product_id \notin ProductKeys
       THEN /\ last' = Response("update_product", product_id, 404, "not found")
            /\ UNCHANGED fake_products_db
       ELSE LET product == find_product_by_id(product_id)
                updated == [f \in DOMAIN product |->
                              IF f = "updated_at" THEN clock
                              ELSE IF f \in DOMAIN update_data THEN update_data[f]
                              ELSE product[f]]
            IN  /\ fake_products_db' =
                     [i \in DOMAIN fake_products_db |->
                        IF i = ProductIndex(product_id) THEN updated ELSE fake_products_db[i]]
                /\ last' = IF ProductBuilds(updated)
                           THEN Reply("update_product", product_id, 200, "updated", updated)
                           ELSE Response("update_product", product_id, 500, "ResponseValidationError")

update_product_status(product_id, new_status) ==
    /\ clock < MaxClock
    /\ running = 0
    /\ clock' = clock + 1
    /\ UNCHANGED <<policies_db, claims_db, cancel_applied, handlers, running, clients_db,
                   product_ids_assigned>>
    /\ IF product_id \notin ProductKeys
       THEN /\ last' = Response("update_product_status", product_id, 404, "not found")
            /\ UNCHANGED fake_products_db
       ELSE LET product == find_product_by_id(product_id)
                updated == [product EXCEPT !.status = new_status, !.updated_at = clock]
            IN  /\ fake_products_db' =
                     [i \in DOMAIN fake_products_db |->
                        IF i = ProductIndex(product_id) THEN updated ELSE fake_products_db[i]]
                /\ last' = IF ProductBuilds(updated)
                           THEN Reply("update_product_status", product_id, 200, "updated", updated)
                           ELSE Response("update_product_status", product_id, 500,
                                         "ResponseValidationError")

\* fake_products_db.remove(product): the first element equal to the product
delete_product(product_id) ==
    /\ clock < MaxClock
    /\ running = 0
    /\ clock' = clock + 1
    /\ UNCHANGED <<policies_db, claims_db, cancel_applied, handlers, running, clients_db,
                   product_ids_assigned>>
    /\ IF product_id \notin ProductKeys
       THEN /\ last' = Response("delete_product", product_id, 404, "not found")
            /\ UNCHANGED fake_products_db
       ELSE LET product == find_product_by_id(product_id)
                at == CHOOSE i \in DOMAIN fake_products_db :
                        /\ fake_products_db[i] = product
                        /\ \A j \in DOMAIN fake_products_db :
                            fake_products_db[j] = product => i <= j
            IN  /\ fake_products_db' =
                     [i \in 1..(Len(fake_products_db) - 1) |->
                        IF i < at THEN fake_products_db[i] ELSE fake_products_db[i + 1]]
                /\ last' = Response("delete_product", product_id, 204, "no content")

(***************************************************************************)
(* routers_client.py: clients_db maps the client ids to records.           *)
(***************************************************************************)
\* number of distinct identifiers uuid4 can return for clients
NumClientIds == 2
ClientIds == 1..NumClientIds

Emails == {"ann@example.org", "bob@example.org"}

\* the bodies ClientCreate accepts
ClientCreateInputs ==
    [first_name : {"Ann"},
     last_name : {"Lee"},
     email : Emails,
     phone : {"+15551234567"},
     date_of_birth : {<<1990, 5, 17>>},
     address : {"12 Harbour Street"},
     city : {"Boston"},
     state : {"MA"},
     zip_code : {"02110"}]

\* client_update.dict(exclude_unset=True): every field of ClientUpdate is
\* Optional, so an explicit null passes validation
ClientUpdateInputs ==
    {<<>>}
    \cup {[email |-> e] : e \in Emails \cup {NoneStr}}
    \cup {[first_name |-> n] : n \in {"Anna", NoneStr}}
    \cup {[first_name |-> "Anna", email |-> e] : e \in Emails}

ClientKeys == {clients_db[i].client_id : i \in DOMAIN clients_db}

\* clients_db[client_id]
Client(client_id) ==
    clients_db[CHOOSE i \in DOMAIN clients_db : clients_db[i].client_id = client_id]

\* clients_db[client_id] = client
StoreClient(db, client) ==
    IF \E i \in DOMAIN db : db[i].client_id = client.client_id
    THEN [i \in DOMAIN db |-> IF db[i].client_id = client.client_id THEN client ELSE db[i]]
    ELSE Append(db, client)

\* check_email_exists(email, exclude_id); exclude_id is 0 for None
check_email_exists(email, exclude_id) ==
    \E i \in DOMAIN clients_db :
        /\ clients_db[i].email = email
        /\ clients_db[i].client_id # exclude_id

\* ClientResponse(**client) validates the record
ClientBuilds(client) ==
    /\ client.first_name # NoneStr
    /\ client.email # NoneStr

ClientResponse(client) ==
    [client_id |-> client.client_id,
     first_name |-> client.first_name,
     last_name |-> client.last_name,
     email |-> client.email,
     phone |-> client.phone,
     date_of_birth |-> client.date_of_birth,
     address |-> client.address,
     city |-> client.city,
     state |-> client.state,
     zip_code |-> client.zip_code,
     created_at |-> client.created_at,
     updated_at |-> client.updated_at,
     is_active |-> client.is_active]

create_client(client) ==
    /\ clock < MaxClock
    /\ running = 0
    /\ clock' = clock + 1
    /\ UNCHANGED <<policies_db, claims_db, cancel_applied, handlers, running,
                   fake_products_db, product_ids_assigned>>
    /\ IF check_email_exists(client.email, 0)
       THEN /\ last' = Response("create_client", 0, 400, "email already registered")
            /\ UNCHANGED clients_db
       ELSE \E client_id \in NextToken(ClientIds, ClientKeys) :
            LET client_data ==
                    [client_id |-> client_id,
                     first_name |-> client.first_name,
                     last_name |-> client.last_name,
                     email |-> client.email,
                     phone |-> client.phone,
                     date_of_birth |-> client.date_of_birth,
                     address |-> client.address,
                     city |-> client.city,
                     state |-> client.state,
                     zip_code |-> client.zip_code,
                     created_at |-> clock,
                     updated_at |-> clock,
                     is_active |-> TRUE]
            IN  /\ clients_db' = StoreClient(clients_db, client_data)
                /\ last' = Reply("create_client", client_id, 201, "created",
                                 ClientResponse(client_data))

update_client(client_id, update_data) ==
    /\ clock < MaxClock
    /\ running = 0
    /\ clock' = clock + 1
    /\ UNCHANGED <<policies_db, claims_db, cancel_applied, handlers, running,
                   fake_products_db, product_ids_assigned>>
    /\ IF client_id \notin ClientKeys
       THEN /\ last' = Response("update_client", client_id, 404, "client not found")
            /\ UNCHANGED clients_db
       ELSE LET client == Client(client_id) IN
            IF /\ "email" \in DOMAIN update_data
               /\ update_data.email # NoneStr
               /\ update_data.email # client.email
               /\ check_email_exists(update_data.email, client_id)
            THEN /\ last' = Response("update_client", client_id, 400, "email already registered")
                 /\ UNCHANGED clients_db
            ELSE LET updated == [f \in DOMAIN client |->
                                    IF f = "updated_at" THEN clock
                                    ELSE IF f \in DOMAIN update_data THEN update_data[f]
                                    ELSE client[f]]
                 IN  /\ clients_db' = StoreClient(clients_db, updated)
                     /\ last' = IF ClientBuilds(updated)
                                THEN Reply("update_client", client_id, 200, "updated",
                                           ClientResponse(updated))
                                ELSE Response("update_client", client_id, 500, "ValidationError")

toggle_client_status(client_id) ==
    /\ clock < MaxClock
    /\ running = 0
    /\ clock' = clock + 1
    /\ UNCHANGED <<policies_db, claims_db, cancel_applied, handlers, running,
                   fake_products_db, product_ids_assigned>>
    /\ IF client_id \notin ClientKeys
       THEN /\ last' = Response("toggle_client_status", client_id, 404, "client not found")
            /\ UNCHANGED clients_db
       ELSE LET client == Client(client_id)
                toggled == [client EXCEPT !.is_active = ~client.is_active,
                                          !.updated_at = clock]
            IN  /\ clients_db' = StoreClient(clients_db, toggled)
                /\ last' = IF ClientBuilds(toggled)
                           THEN Reply("toggle_client_status", client_id, 200, "toggled",
                                      ClientResponse(toggled))
                           ELSE Response("toggle_client_status", client_id, 500, "ValidationError")

\* a delete that flips is_active
delete_client_flipping(client_id) ==
    /\ clock < MaxClock
    /\ running = 0
    /\ clock' = clock + 1
    /\ UNCHANGED <<policies_db, claims_db, cancel_applied, handlers, running,
                   fake_products_db, product_ids_assigned>>
    /\ IF client_id \notin ClientKeys
       THEN /\ last' = Response("delete_client", client_id, 404, "client not found")
            /\ UNCHANGED clients_db
       ELSE /\ clients_db' = StoreClient(clients_db,
                    [Client(client_id) EXCEPT !.is_active = ~Client(client_id).is_active,
                                              !.updated_at = clock])
            /\ last' = Response("delete_client", client_id, 204, "no content")

delete_client(client_id) ==
    /\ clock < MaxClock
    /\ running = 0
    /\ clock' = clock + 1
    /\ UNCHANGED <<policies_db, claims_db, cancel_applied, handlers, running,
                   fake_products_db, product_ids_assigned>>
    /\ IF client_id \notin ClientKeys
       THEN /\ last' = Response("delete_client", client_id, 404, "client not found")
            /\ UNCHANGED clients_db
       ELSE /\ clients_db' = StoreClient(clients_db,
                    [Client(client_id) EXCEPT !.is_active = FALSE, !.updated_at = clock])
            /\ last' = Response("delete_client", client_id, 204, "no content")

(***************************************************************************)
(* The list endpoints and the validation of their query parameters.        *)
(***************************************************************************)
\* the answer of FastAPI to a parameter outside its declared range
Unprocessable(op) == Response(op, 0, 422, "validation error")

\* Python's index normalisation for a slice bound
SliceBound(i, len) ==
    LET j == IF i < 0 THEN i + len ELSE i
    IN  IF j < 0 THEN 0 ELSE IF j > len THEN len ELSE j

\* seq[start:stop]
PySlice(seq, start, stop) ==
    LET from == SliceBound(start, Len(seq))
        to == SliceBound(stop, Len(seq))
    IN  IF to <= from THEN <<>> ELSE SubSeq(seq, from + 1, to)

\* the values of skip and limit the requests carry
Skips == {-1, 0, 1}
Limits == {0, 1, 1000, 1001}

\* the optional filters of get_policies; None when the parameter is absent
PolicyFilters ==
    [customer_id : {NoneStr, "", "C-2"},
     policy_type : {NoneStr, "auto"},
     status : {NoneStr, "cancelled"}]

\* `if value:` is false for None and for the empty string
Truthy(value) == value # NoneStr /\ value # ""

\* the three filters of get_policies, applied one after the other
FilterPolicies(policies, filters) ==
    LET by_customer == IF Truthy(filters.customer_id)
                       THEN SelectSeq(policies, LAMBDA p : p.customer_id = filters.customer_id)
                       ELSE policies
        by_type == IF Truthy(filters.policy_type)
                   THEN SelectSeq(by_customer, LAMBDA p : p.policy_type = filters.policy_type)
                   ELSE by_customer
    IN  IF Truthy(filters.status)
        THEN SelectSeq(by_type, LAMBDA p : p.status = filters.status)
        ELSE by_type

get_policies(skip, limit, filters) ==
    /\ running = 0
    /\ UNCHANGED directory
    /\ UNCHANGED <<policies_db, claims_db, clock, cancel_applied, handlers, running>>
    /\ last' =
        IF skip < 0 \/ limit < 1 \/ limit > 1000
        THEN Unprocessable("get_policies")
        ELSE LET policies == PySlice(FilterPolicies(policies_db, filters), skip, skip + limit)
             IN  IF \E k \in DOMAIN policies : ~ResponseBuilds(policies[k])
                 THEN Response("get_policies", 0, 500, "ValidationError")
                 ELSE Reply("get_policies", 0, 200, "ok",
                            [k \in DOMAIN policies |-> PolicyResponse(policies[k])])

\* is_active of get_clients: "none" when the parameter is absent
ActiveFilters == {"none", "true", "false"}

\* get_clients with no search term
get_clients(skip, limit, is_active) ==
    /\ running = 0
    /\ UNCHANGED directory
    /\ UNCHANGED <<policies_db, claims_db, clock, cancel_applied, handlers, running>>
    /\ last' =
        IF skip < 0 \/ limit < 1 \/ limit > 1000
        THEN Unprocessable("get_clients")
        ELSE LET filtered == IF is_active = "none" THEN clients_db
                             ELSE SelectSeq(clients_db,
                                            LAMBDA c : c.is_active = (is_active = "true"))
                 clients == PySlice(filtered, skip, skip + limit)
             IN  IF \E k \in DOMAIN clients : ~ClientBuilds(clients[k])
                 THEN Response("get_clients", 0, 500, "ValidationError")
                 ELSE Reply("get_clients", 0, 200, "ok",
                            [k \in DOMAIN clients |-> ClientResponse(clients[k])])

\* product_type and status of get_all_products; None when absent
ProductFilters ==
    [product_type : {NoneStr, "life"},
     status : {NoneStr, "active"}]

\* skip: int = 0 and limit: int = 100 declare no range
get_all_products(filters, skip, limit) ==
    /\ running = 0
    /\ UNCHANGED directory
    /\ UNCHANGED <<policies_db, claims_db, clock, cancel_applied, handlers, running>>
    /\ last' =
        LET by_type == IF Truthy(filters.product_type)
                       THEN SelectSeq(fake_products_db,
                                      LAMBDA p : p.product_type = filters.product_type)
                       ELSE fake_products_db
            by_status == IF Truthy(filters.status)
                         THEN SelectSeq(by_type, LAMBDA p : p.status = filters.status)
                         ELSE by_type
            products == PySlice(by_status, skip, skip + limit)
        IN  IF \E k \in DOMAIN products : ~ProductBuilds(products[k])
            THEN Response("get_all_products", 0, 500, "ResponseValidationError")
            ELSE Reply("get_all_products", 0, 200, "ok", products)

\* the values of renewal_months the requests carry
RenewalMonthsSent == {0, 12, 61}

\* POST /policies/{policy_id}/renew: the query parameter is validated, then
\* the handler runs
renew_policy_request(policy_id, renewal_months) ==
    IF renewal_months < MinRenewalMonths \/ renewal_months > MaxRenewalMonths
    THEN /\ running = 0
         /\ UNCHANGED directory
         /\ UNCHANGED <<policies_db, claims_db, clock, cancel_applied, handlers, running>>
         /\ last' = Unprocessable("renew_policy")
    ELSE renew_policy(policy_id, renewal_months)

(***************************************************************************)
(* The service: requests are handled one after the other.                  *)
(***************************************************************************)
\* the coroutine slots of the event loop model
Handlers == 1..2

\* no coroutine is held in flight: each request is run to its end on arrival
IdleHandlers == [h \in Handlers |-> [pc |-> "idle"]]

\* the product and client stores when the application has been imported
DirectoryInit ==
    /\ fake_products_db = InitialProducts
    /\ product_ids_assigned = <<1, 2, 3>>
    /\ clients_db = <<>>

Init ==
    /\ policies_db = <<>>
    /\ claims_db = <<>>
    /\ clock = 0
    /\ last = Response("none", 0, 0, "")
    /\ cancel_applied = {}
    /\ handlers = IdleHandlers
    /\ running = 0
    /\ DirectoryInit

Next ==
    \/ \E policy \in PolicyCreateInputs : create_policy(policy)
    \/ \E policy_id \in PolicyIds, update_data \in PolicyUpdateInputs :
            update_policy(policy_id, update_data)
    \/ \E policy_id \in PolicyIds : delete_policy(policy_id)
    \/ \E policy_id \in PolicyIds, renewal_months \in RenewalMonths :
            renew_policy(policy_id, renewal_months)
    \/ \E policy_id \in PolicyIds, claim_request \in ClaimRequestInputs :
            create_claim(policy_id, claim_request)

Spec == Init /\ [][Next]_vars

(***************************************************************************)
(* Two create_policy requests in flight on the event loop.                 *)
(*                                                                         *)
(* A coroutine is resumed by the loop when the loop is free, runs line by  *)
(* line, and gives the loop back only at an await or when it ends.  The    *)
(* positions are the lines of create_policy: "line88" (generate the id and *)
(* read the clock), "line92" (validate the dates), "line113" (scan for the *)
(* policy number), "line120" (store), "done".                              *)
(***************************************************************************)
\* create_policy awaiting between its scan and its store
AwaitBeforeStore == {"line120"}

\* the positions of create_policy's body at which it awaits: there is none
AwaitPoints == {}

\* the loop runs h: h holds the loop, or the loop is free and h is not over
CanStep(h) ==
    /\ handlers[h].pc \notin {"idle", "done"}
    /\ running = h \/ running = 0

\* who holds the loop once h has moved to position pc
LoopAfter(h, pc) == IF pc = "done" \/ pc \in AwaitPoints THEN 0 ELSE h

\* tokens held by the coroutines in flight
HeldPolicyIds == {handlers[h].policy_id : h \in Handlers}

Line88(h) ==
    /\ CanStep(h)
    /\ UNCHANGED directory
    /\ handlers[h].pc = "line88"
    /\ \E policy_id \in NextToken(PolicyIds, PolicyKeys \cup HeldPolicyIds) :
        handlers' = [handlers EXCEPT ![h].policy_id = policy_id,
                                     ![h].now = clock,
                                     ![h].pc = "line92"]
    /\ clock' = clock + 1
    /\ running' = LoopAfter(h, "line92")
    /\ UNCHANGED <<policies_db, claims_db, last, cancel_applied>>

Line92(h) ==
    /\ CanStep(h)
    /\ UNCHANGED directory
    /\ handlers[h].pc = "line92"
    /\ IF DatesInvalid(handlers[h].policy)
       THEN /\ handlers' = [handlers EXCEPT ![h].code = 400, ![h].pc = "done"]
            /\ running' = LoopAfter(h, "done")
       ELSE /\ handlers' = [handlers EXCEPT ![h].pc = "line113"]
            /\ running' = LoopAfter(h, "line113")
    /\ UNCHANGED <<policies_db, claims_db, clock, last, cancel_applied>>

Line113(h) ==
    /\ CanStep(h)
    /\ UNCHANGED directory
    /\ handlers[h].pc = "line113"
    /\ IF DuplicatePolicyNumber(policies_db, handlers[h].policy.policy_number)
       THEN /\ handlers' = [handlers EXCEPT ![h].code = 409, ![h].pc = "done"]
            /\ running' = LoopAfter(h, "done")
       ELSE /\ handlers' = [handlers EXCEPT ![h].pc = "line120"]
            /\ running' = LoopAfter(h, "line120")
    /\ UNCHANGED <<policies_db, claims_db, clock, last, cancel_applied>>

Line120(h) ==
    /\ CanStep(h)
    /\ UNCHANGED directory
    /\ handlers[h].pc = "line120"
    /\ policies_db' = StorePolicy(policies_db,
            PolicyData(handlers[h].policy_id, handlers[h].policy, handlers[h].now))
    /\ handlers' = [handlers EXCEPT ![h].code = 201, ![h].pc = "done"]
    /\ running' = LoopAfter(h, "done")
    /\ UNCHANGED <<claims_db, clock, last, cancel_applied>>

\* stores the service can hold when the two requests arrive: empty, or one
\* policy created earlier
RacePriorStores ==
    {<<>>} \cup {<<PolicyData(1, policy, 0)>> :
                    policy \in {p \in PolicyCreateInputs : ~DatesInvalid(p)}}

\* two accepted requests carrying the same policy number, with valid dates,
\* the number not yet stored
RaceInit ==
    /\ policies_db \in RacePriorStores
    /\ claims_db = <<>>
    /\ clock = 1
    /\ last = Response("none", 0, 0, "")
    /\ cancel_applied = {}
    /\ running = 0
    /\ DirectoryInit
    /\ \E p1 \in PolicyCreateInputs, p2 \in PolicyCreateInputs :
        /\ p1.policy_number = p2.policy_number
        /\ ~DatesInvalid(p1) /\ ~DatesInvalid(p2)
        /\ ~DuplicatePolicyNumber(policies_db, p1.policy_number)
        /\ handlers = [h \in Handlers |->
                [pc |-> "line88", policy |-> IF h = 1 THEN p1 ELSE p2,
                 policy_id |-> 0, now |-> 0, code |-> 0]]

RaceNext ==
    \E h \in Handlers : Line88(h) \/ Line92(h) \/ Line113(h) \/ Line120(h)

RaceSpec == RaceInit /\ [][RaceNext]_vars
(***************************************************************************)
(* Renewals of one stored policy, over the whole range of renewal_months.  *)
(***************************************************************************)
\* end dates at the end of a year, at the end of February in a common and in
\* a leap year, on a 31st, on a 30th and in mid-month
RenewalEndDates ==
    {<<2024, 12, 31>>, <<2023, 2, 28>>, <<2024, 2, 29>>, <<2024, 1, 31>>,
     <<2023, 11, 30>>, <<2023, 6, 15>>}

\* the bodies of the create_policy request that stored the policy
RenewalPolicies ==
    [policy_number : {"P-1"},
     policy_type : {"auto"},
     customer_id : {"C-1"},
     premium_amount : {100},
     coverage_amount : {1000},
     start_date : {<<2022, 1, 1>>},
     end_date : RenewalEndDates,
     status : {"active"}]

\* the service after one create_policy, handled at instant 0
RenewInit ==
    /\ \E policy \in RenewalPolicies :
        /\ policies_db = <<PolicyData(1, policy, 0)>>
        /\ last = Reply("create_policy", 1, 201, "created",
                        PolicyResponse(PolicyData(1, policy, 0)))
    /\ claims_db = <<>>
    /\ clock = 1
    /\ cancel_applied = {}
    /\ handlers = IdleHandlers
    /\ running = 0
    /\ DirectoryInit

RenewNext ==
    \E policy_id \in PolicyIds, renewal_months \in AllRenewalMonths :
        renew_policy(policy_id, renewal_months)

RenewSpec == RenewInit /\ [][RenewNext]_vars

(***************************************************************************)
(* Two policies with the same end date, of which the first is renewed.     *)
(***************************************************************************)
\* the service after two create_policy requests, handled at instants 0 and 1
AdditiveInit ==
    /\ \E policy \in RenewalPolicies :
        LET first == PolicyData(1, policy, 0)
            second == PolicyData(2, [policy EXCEPT !.policy_number = "P-2"], 1)
        IN  /\ policies_db = <<first, second>>
            /\ last = Reply("create_policy", 2, 201, "created", PolicyResponse(second))
    /\ claims_db = <<>>
    /\ clock = 2
    /\ cancel_applied = {}
    /\ handlers = IdleHandlers
    /\ running = 0
    /\ DirectoryInit

AdditiveNext ==
    \E renewal_months \in AllRenewalMonths : renew_policy(1, renewal_months)

AdditiveSpec == AdditiveInit /\ [][AdditiveNext]_vars

(***************************************************************************)
(* The service with its read endpoints, over a narrower set of bodies.     *)
(***************************************************************************)
QueryCreateInputs ==
    {policy \in PolicyCreateInputs :
        /\ policy.start_date = <<2024, 1, 1>>
        /\ policy.end_date = <<2024, 1, 31>>
        /\ policy.status = "active"}

QueryUpdateInputs ==
    {update_data \in PolicyUpdateInputs :
        \/ DOMAIN update_data = {"coverage_amount"}
        \/ DOMAIN update_data = {"end_date"} /\ update_data.end_date # <<2024, 2, 29>>}

QueryRenewalMonths == {12}

QueryClaimInputs ==
    [policy_id : {1},
     claim_amount : {200, 300, 1001},
     incident_date : {<<2024, 1, 15>>},
     description : {"damage"},
     claim_type : {"collision"}]

QueryNext ==
    \/ \E policy \in QueryCreateInputs : create_policy(policy)
    \/ \E policy_id \in PolicyIds, update_data \in QueryUpdateInputs :
            update_policy(policy_id, update_data)
    \/ \E policy_id \in PolicyIds : delete_policy(policy_id)
    \/ \E policy_id \in PolicyIds, renewal_months \in QueryRenewalMonths :
            renew_policy(policy_id, renewal_months)
    \/ \E policy_id \in PolicyIds, claim_request \in QueryClaimInputs :
            create_claim(policy_id, claim_request)
    \/ \E policy_id \in PolicyIds : get_policy(policy_id)
    \/ \E policy_id \in PolicyIds : get_policy_claims(policy_id)
    \/ \E policy_id \in PolicyIds : get_policy_summary(policy_id)

QuerySpec == Init /\ [][QueryNext]_vars

(***************************************************************************)
(* The product router.                                                     *)
(***************************************************************************)
ProductNext ==
    \/ \E product \in ProductCreateInputs : create_product(product)
    \/ \E product_id \in ProductIds, update_data \in ProductUpdateInputs :
            update_product(product_id, update_data)
    \/ \E product_id \in ProductIds, new_status \in ProductStatuses :
            update_product_status(product_id, new_status)
    \/ \E product_id \in ProductIds : delete_product(product_id)

ProductSpec == Init /\ [][ProductNext]_vars

(***************************************************************************)
(* The client router.                                                      *)
(***************************************************************************)
ClientNext ==
    \/ \E client \in ClientCreateInputs : create_client(client)
    \/ \E client_id \in ClientIds, update_data \in ClientUpdateInputs :
            update_client(client_id, update_data)
    \/ \E client_id \in ClientIds : toggle_client_status(client_id)
    \/ \E client_id \in ClientIds : delete_client(client_id)

ClientSpec == Init /\ [][ClientNext]_vars

(***************************************************************************)
(* The list endpoints of the three routers and the renewal request, over   *)
(* stores that a few requests have filled.                                 *)
(***************************************************************************)
ListUpdateInputs ==
    {update_data \in PolicyUpdateInputs :
        /\ DOMAIN update_data = {"coverage_amount"}
        /\ update_data.coverage_amount = NoneNum}

ListNext ==
    \/ \E policy \in QueryCreateInputs : create_policy(policy)
    \/ \E policy_id \in PolicyIds, update_data \in ListUpdateInputs :
            update_policy(policy_id, update_data)
    \/ \E policy_id \in PolicyIds : delete_policy(policy_id)
    \/ \E client \in ClientCreateInputs : create_client(client)
    \/ \E client_id \in ClientIds : delete_client(client_id)
    \/ \E skip \in Skips, limit \in Limits, filters \in PolicyFilters :
            get_policies(skip, limit, filters)
    \/ \E skip \in Skips, limit \in Limits, is_active \in ActiveFilters :
            get_clients(skip, limit, is_active)
    \/ \E filters \in ProductFilters, skip \in Skips, limit \in Limits :
            get_all_products(filters, skip, limit)
    \/ \E policy_id \in PolicyIds, renewal_months \in RenewalMonthsSent :
            renew_policy_request(policy_id, renewal_months)

ListSpec == Init /\ [][ListNext]_vars

(***************************************************************************)
(* Properties.                                                             *)
(***************************************************************************)
PolicyNumbersUnique ==
    \A i, j \in DOMAIN policies_db :
        policies_db[i].policy_number = policies_db[j].policy_number => i = j

\* C1, as claimed: no two stored policies share a policy_number, and every
\* create_policy whose policy_number is already stored is answered 409 and
\* adds no record.
C1_DuplicateAlways409 ==
    /\ []PolicyNumbersUnique
    /\ [][last'.op = "create_policy" =>
          \A policy \in PolicyCreateInputs :
            ((\E i \in DOMAIN policies_db :
                    policies_db[i].policy_number = policy.policy_number)
                /\ create_policy(policy))
            => (last'.code = 409 /\ policies_db' = policies_db)]_vars

\* C1, amended: no two stored policies share a policy_number, and every
\* create_policy whose policy_number is already stored (by a policy of any
\* status) adds no record and fails: with 400 when its start_date is not
\* before its end_date, with 409 Conflict otherwise.
C1_UniqueNumbers ==
    /\ []PolicyNumbersUnique
    /\ [][last'.op = "create_policy" =>
          \A policy \in PolicyCreateInputs :
            ((\E i \in DOMAIN policies_db :
                    policies_db[i].policy_number = policy.policy_number)
                /\ create_policy(policy))
            => /\ policies_db' = policies_db
               /\ last'.code = IF DateLt(policy.start_date, policy.end_date)
                                THEN 409 ELSE 400]_vars

\* a create_policy was refused for its policy number while a policy that is
\* not active holds the number
C1_Witness ==
    /\ last.op = "create_policy" /\ last.code = 409
    /\ \E i \in DOMAIN policies_db : policies_db[i].status # "active"
    /\ Len(policies_db) = 1

\* C2: once both create_policy coroutines carrying the same policy number
\* have ended, one was answered 201 and the other 409, and exactly one
\* record holds the number; while they run, at most one record holds it.
C2_ExactlyOneSucceeds ==
    LET number == handlers[1].policy.policy_number
        holders == {i \in DOMAIN policies_db : policies_db[i].policy_number = number}
    IN  /\ Cardinality(holders) <= 1
        /\ (\A h \in Handlers : handlers[h].pc = "done") =>
                /\ Cardinality(holders) = 1
                /\ \/ handlers[1].code = 201 /\ handlers[2].code = 409
                   \/ handlers[1].code = 409 /\ handlers[2].code = 201

\* both coroutines have ended and the one listed second won
C2_Witness ==
    /\ \A h \in Handlers : handlers[h].pc = "done"
    /\ handlers[2].code = 201
    /\ handlers[1].code = 409

\* C3: a create_policy whose start_date is equal to or after its end_date
\* is answered 400 and leaves policies_db (and claims_db) unchanged,
\* whatever its other fields and whatever the store holds.
C3_BadDatesRejected ==
    [][last'.op = "create_policy" =>
       \A policy \in PolicyCreateInputs :
        (~DateLt(policy.start_date, policy.end_date) /\ create_policy(policy))
        => /\ last'.code = 400
           /\ policies_db' = policies_db
           /\ claims_db' = claims_db]_vars

\* a create_policy was answered 400 while the store held a policy
C3_Witness ==
    /\ last.op = "create_policy" /\ last.code = 400
    /\ Len(policies_db) >= 1

\* C4: create_claim on a stored active policy (whose coverage_amount is a
\* number) is answered 400 and stores nothing when claim_amount exceeds the
\* coverage_amount, and is answered 201 and appends exactly one claim, of
\* that amount and policy, when claim_amount is equal to it or smaller.
C4_CoverageBoundary ==
    [][last'.op = "create_claim" =>
       \A policy_id \in {last'.policy_id}, claim_request \in ClaimRequestInputs :
        (/\ policy_id \in PolicyKeys
         /\ Policy(policy_id).status = "active"
         /\ Policy(policy_id).coverage_amount # NoneNum
         /\ create_claim(policy_id, claim_request))
        => IF claim_request.claim_amount > Policy(policy_id).coverage_amount
           THEN last'.code = 400 /\ claims_db' = claims_db
           ELSE /\ last'.code = 201
                /\ Len(claims_db') = Len(claims_db) + 1
                /\ SubSeq(claims_db', 1, Len(claims_db)) = claims_db
                /\ claims_db'[Len(claims_db')].claim_amount = claim_request.claim_amount
                /\ claims_db'[Len(claims_db')].policy_id = policy_id]_vars

\* the claim stored last is for exactly the coverage_amount of its policy
C4_Witness ==
    /\ last.op = "create_claim" /\ last.code = 201
    /\ Len(claims_db) >= 1
    /\ LET claim == claims_db[Len(claims_db)] IN
        /\ claim.submitted_at = clock - 1
        /\ claim.claim_amount = Policy(claim.policy_id).coverage_amount

\* C5, as claimed: once delete_policy has been applied to a policy, no later
\* create_claim against it succeeds.
C5_NoClaimAfterCancel ==
    (last.op = "create_claim" /\ last.code = 201) => last.policy_id \notin cancel_applied

\* C6: renew_policy on a stored policy whose status is not "active" is
\* answered 400 and leaves every field of every policy unchanged, for each
\* renewal_months.
C6_RenewNeedsActive ==
    [][last'.op = "renew_policy" =>
       \A policy_id \in {last'.policy_id}, renewal_months \in RenewalMonths :
        (/\ policy_id \in PolicyKeys
         /\ Policy(policy_id).status # "active"
         /\ renew_policy(policy_id, renewal_months))
        => last'.code = 400 /\ policies_db' = policies_db]_vars

\* a renew_policy on a cancelled policy was answered 400
C6_Witness ==
    /\ last.op = "renew_policy" /\ last.code = 400
    /\ last.policy_id \in PolicyKeys
    /\ Policy(last.policy_id).status = "cancelled"

\* C7, as claimed: a policy that delete_policy has cancelled has status
\* "cancelled" in every later state, whatever requests were handled since.
C7_CancelledIsTerminal ==
    \A i \in DOMAIN policies_db :
        policies_db[i].id \in cancel_applied => policies_db[i].status = "cancelled"

\* C8, as claimed: the policy a successful create_policy has just stored has
\* status "active".
C8_CreatedActive ==
    (last.op = "create_policy" /\ last.code = 201) =>
        Policy(last.policy_id).status = "active"

\* C9, as claimed: every stored policy has a status among active, cancelled
\* and expired.
C9_StatusInEnum ==
    \A i \in DOMAIN policies_db :
        policies_db[i].status \in {"active", "cancelled", "expired"}

\* C10: every stored policy has its start_date strictly before its end_date.
C10_StartBeforeEnd ==
    \A i \in DOMAIN policies_db :
        DateLt(policies_db[i].start_date, policies_db[i].end_date)

\* a policy whose end_date was moved by an update and then by a renewal
C10_Witness ==
    /\ last.op = "renew_policy" /\ last.code = 200
    /\ Policy(last.policy_id).end_date = AddMonths(<<2024, 2, 29>>, 12)

C12_CancelIdempotent ==
    [][last'.op = "delete_policy" =>
       \A policy_id \in {last'.policy_id} :
        (policy_id \in PolicyKeys /\ delete_policy(policy_id))
        => /\ last'.code = 204
           /\ Len(policies_db') = Len(policies_db)
           /\ claims_db' = claims_db
           /\ \A i \in DOMAIN policies_db :
                IF policies_db[i].id # policy_id
                THEN policies_db'[i] = policies_db[i]
                ELSE /\ policies_db'[i].status = "cancelled"
                     /\ \A f \in DOMAIN policies_db[i] \ {"status", "updated_at"} :
                          policies_db'[i][f] = policies_db[i][f]
                     /\ policies_db[i].status = "cancelled" =>
                          \A f \in DOMAIN policies_db[i] \ {"updated_at"} :
                              policies_db'[i][f] = policies_db[i][f]]_vars

\* a policy cancelled twice in a row
C12_Witness ==
    /\ last.op = "delete_policy" /\ last.code = 204
    /\ Policy(last.policy_id).status = "cancelled"
    /\ Policy(last.policy_id).updated_at = clock - 1
    /\ clock >= 3
    /\ Len(policies_db) = 1

\* C13: a renew_policy on an active policy moves end_date to the same day of
\* the month renewal_months calendar months later, or to the last day of that
\* month when it is shorter (2024-12-31 + 12 = 2025-12-31, 2023-02-28 + 12 =
\* 2024-02-28), and leaves the status "active".
C13_RenewAddsCalendarMonths ==
    [][last'.op = "renew_policy" =>
       \A policy_id \in {last'.policy_id}, renewal_months \in AllRenewalMonths :
        (/\ policy_id \in PolicyKeys
         /\ Policy(policy_id).status = "active"
         /\ renew_policy(policy_id, renewal_months))
        => LET d == Policy(policy_id).end_date
               index == d[1] * 12 + (d[2] - 1) + renewal_months
               y == index \div 12
               m == (index % 12) + 1
               renewed == policies_db'[CHOOSE i \in DOMAIN policies_db' :
                                            policies_db'[i].id = policy_id]
           IN  /\ renewed.end_date[1] = y
               /\ renewed.end_date[2] = m
               /\ renewed.end_date[3] =
                     IF d[3] <= DaysInMonth(y, m) THEN d[3] ELSE DaysInMonth(y, m)
               /\ renewed.status = "active"
               /\ (d = <<2024, 12, 31>> /\ renewal_months = 12)
                     => renewed.end_date = <<2025, 12, 31>>
               /\ (d = <<2023, 2, 28>> /\ renewal_months = 12)
                     => renewed.end_date = <<2024, 2, 28>>]_vars

\* the policy ending 2023-02-28 after its first renewal, by 12 months
C13_Witness ==
    /\ last.op = "renew_policy" /\ last.code = 200
    /\ clock = 2
    /\ Policy(last.policy_id).end_date = <<2024, 2, 28>>
    /\ Policy(last.policy_id).status = "active"

\* C14, as claimed: every stored claim has a claim_amount that is at most the
\* coverage_amount its policy holds now (stated for the policies whose
\* coverage_amount is a number).
C14_ClaimsWithinCoverage ==
    \A k \in DOMAIN claims_db :
        Policy(claims_db[k].policy_id).coverage_amount # NoneNum =>
            claims_db[k].claim_amount <= Policy(claims_db[k].policy_id).coverage_amount

\* C16, as claimed: every stored policy has a coverage_amount and a
\* premium_amount that are numbers above zero.
C16_AmountsPositive ==
    \A i \in DOMAIN policies_db :
        /\ policies_db[i].coverage_amount # NoneNum
        /\ policies_db[i].coverage_amount > 0
        /\ policies_db[i].premium_amount # NoneNum
        /\ policies_db[i].premium_amount > 0

\* C19, as claimed: a request that ends in an error response leaves
\* policies_db and claims_db as they were before it.
C19_ErrorsWriteNothing ==
    [][last'.code >= 400 =>
        /\ policies_db' = policies_db
        /\ claims_db' = claims_db]_vars

\* C15: every stored claim names a policy that is in policies_db; no request
\* removes a policy or a stored claim; and get_policy_claims answers, also for
\* a cancelled policy, with all the stored claims of that policy and no other.
C15_ClaimsReferToPolicies ==
    /\ [](/\ \A k \in DOMAIN claims_db : claims_db[k].policy_id \in PolicyKeys
          /\ (last.op = "get_policy_claims" /\ last.code = 200) =>
                /\ \A k \in DOMAIN claims_db :
                     claims_db[k].policy_id = last.policy_id =>
                        \E j \in DOMAIN last.result :
                            /\ last.result[j].claim_id = claims_db[k].claim_id
                            /\ last.result[j].claim_amount = claims_db[k].claim_amount
                            /\ last.result[j].status = claims_db[k].status
                /\ \A j \in DOMAIN last.result : last.result[j].policy_id = last.policy_id
                /\ Len(last.result) =
                     Cardinality({k \in DOMAIN claims_db :
                                    claims_db[k].policy_id = last.policy_id}))
    /\ [][/\ \A i \in DOMAIN policies_db :
              i \in DOMAIN policies_db' /\ policies_db'[i].id = policies_db[i].id
          /\ \A k \in DOMAIN claims_db :
              k \in DOMAIN claims_db' /\ claims_db'[k] = claims_db[k]]_vars

\* the claims of a policy listed after delete_policy cancelled it
C15_Witness ==
    /\ last.op = "get_policy_claims" /\ last.code = 200
    /\ last.policy_id \in cancel_applied
    /\ Policy(last.policy_id).status = "cancelled"
    /\ Len(last.result) >= 1

\* the sum of the claim_amount of the claims of a policy among the first n
\* stored claims
RECURSIVE ClaimedAmong(_, _)
ClaimedAmong(policy_id, n) ==
    IF n = 0 THEN 0
    ELSE ClaimedAmong(policy_id, n - 1) +
         (IF claims_db[n].policy_id = policy_id THEN claims_db[n].claim_amount ELSE 0)

\* C17, as claimed: get_policy_summary of a stored policy answers with the
\* number of stored claims of the policy, the sum of their amounts, how many
\* of them are pending and approved, and a utilization rate of that sum over
\* the coverage times 100 (50 for coverage 1000 with claims of 200 and 300);
\* claims of other policies are not counted.
C17_SummaryAggregates ==
    (last.op = "get_policy_summary" /\ last.policy_id \in PolicyKeys) =>
        /\ last.code = 200
        /\ LET mine == {k \in DOMAIN claims_db : claims_db[k].policy_id = last.policy_id}
               total == ClaimedAmong(last.policy_id, Len(claims_db))
               summary == last.result.claims_summary
               rate == last.result.utilization_rate
           IN  /\ summary.total_claims = Cardinality(mine)
               /\ summary.total_claimed_amount = total
               /\ summary.pending_claims =
                    Cardinality({k \in mine : claims_db[k].status = "pending"})
               /\ summary.approved_claims =
                    Cardinality({k \in mine : claims_db[k].status = "approved"})
               /\ rate.den > 0
               /\ rate.num * Policy(last.policy_id).coverage_amount = total * 100 * rate.den
               /\ (/\ Policy(last.policy_id).coverage_amount = 1000
                   /\ {claims_db[k].claim_amount : k \in mine} = {200, 300})
                  => rate.num = 50 * rate.den

\* C18: a successful create_policy stores and returns a record that equals the
\* request in policy_number, policy_type, customer_id, premium_amount,
\* coverage_amount, start_date and end_date; a stored record changes only by
\* an update_policy, renew_policy or delete_policy of its own id; and
\* get_policy of a policy not changed since its creation answers 200 with
\* that record, id and timestamps included.
C18_CreateThenGet ==
    /\ [][(last'.op = "create_policy" /\ last'.code = 201) =>
           \A policy \in QueryCreateInputs :
              create_policy(policy) =>
                /\ last'.result.id = last'.policy_id
                /\ last'.result.policy_number = policy.policy_number
                /\ last'.result.policy_type = policy.policy_type
                /\ last'.result.customer_id = policy.customer_id
                /\ last'.result.premium_amount = policy.premium_amount
                /\ last'.result.coverage_amount = policy.coverage_amount
                /\ last'.result.start_date = policy.start_date
                /\ last'.result.end_date = policy.end_date
                /\ \E i \in DOMAIN policies_db' :
                     /\ i \notin DOMAIN policies_db
                     /\ policies_db'[i] = last'.result]_vars
    /\ [][\A i \in DOMAIN policies_db :
            policies_db'[i] # policies_db[i] =>
                /\ last'.op \in {"update_policy", "renew_policy", "delete_policy"}
                /\ last'.policy_id = policies_db[i].id]_vars
    /\ []((/\ last.op = "get_policy"
           /\ last.policy_id \in PolicyKeys
           /\ Policy(last.policy_id).updated_at = Policy(last.policy_id).created_at)
          => /\ last.code = 200
             /\ last.result = Policy(last.policy_id))

\* get_policy of a policy as it was created, after another policy was changed
C18_Witness ==
    /\ last.op = "get_policy" /\ last.code = 200
    /\ last.result.updated_at = last.result.created_at
    /\ last.result.coverage_amount = 1000
    /\ \E i \in DOMAIN policies_db :
        /\ policies_db[i].id # last.policy_id
        /\ policies_db[i].updated_at > policies_db[i].created_at

\* C20: get_policy, update_policy, delete_policy, renew_policy, create_claim,
\* get_policy_claims and get_policy_summary of an id that is no key of
\* policies_db answer 404, whatever else the request carries, and change
\* neither policies_db nor claims_db.
C20_UnknownIdIs404 ==
    [][(/\ last'.op \in {"get_policy", "update_policy", "delete_policy", "renew_policy",
                         "create_claim", "get_policy_claims", "get_policy_summary"}
        /\ \A i \in DOMAIN policies_db : policies_db[i].id # last'.policy_id)
       => /\ last'.code = 404
          /\ policies_db' = policies_db
          /\ claims_db' = claims_db]_vars

\* a claim filed against an unknown id while policies and claims are stored
C20_Witness ==
    /\ last.op = "create_claim" /\ last.code = 404
    /\ last.policy_id \notin PolicyKeys
    /\ Len(policies_db) >= 1
    /\ Len(claims_db) >= 1

\* C21, as claimed: no two stored products have the same name.
C21_ProductNamesUnique ==
    \A i, j \in DOMAIN fake_products_db :
        fake_products_db[i].name = fake_products_db[j].name => i = j

\* C26, as claimed: the stored products have pairwise distinct ids, and no
\* id is given to a product twice.
C26_ProductIdsNeverReused ==
    /\ \A i, j \in DOMAIN fake_products_db :
        fake_products_db[i].id = fake_products_db[j].id => i = j
    /\ \A k, l \in DOMAIN product_ids_assigned :
        product_ids_assigned[k] = product_ids_assigned[l] => k = l

\* C22, as claimed: no two stored clients, active or not, have the same
\* email; a create_client with a stored email answers 400 and changes
\* nothing; an update_client that changes the email to one another client
\* holds answers 400 and changes nothing; an update_client that submits the
\* client's own email again succeeds.
C22_ClientEmailsUnique ==
    /\ [](\A i, j \in DOMAIN clients_db :
            clients_db[i].email = clients_db[j].email => i = j)
    /\ [][last'.op = "create_client" =>
           \A client \in ClientCreateInputs :
              (/\ \E i \in DOMAIN clients_db : clients_db[i].email = client.email
               /\ create_client(client))
              => last'.code = 400 /\ clients_db' = clients_db]_vars
    /\ [][last'.op = "update_client" =>
           \A client_id \in {last'.policy_id}, update_data \in ClientUpdateInputs :
              (/\ client_id \in ClientKeys
               /\ "email" \in DOMAIN update_data
               /\ update_data.email # NoneStr
               /\ update_client(client_id, update_data))
              => IF update_data.email = Client(client_id).email
                 THEN last'.code = 200
                 ELSE (\E i \in DOMAIN clients_db : clients_db[i].email = update_data.email)
                        => last'.code = 400 /\ clients_db' = clients_db]_vars

\* C23: delete_client never removes the record and leaves is_active false
\* whatever it was; toggle_client_status negates is_active, so a toggle right
\* after a delete of the same client leaves it active and two toggles in a
\* row restore the value; no client request removes a key of clients_db.
C23_DeleteIsNotToggle ==
    /\ [][\A i \in DOMAIN clients_db :
            /\ i \in DOMAIN clients_db'
            /\ clients_db'[i].client_id = clients_db[i].client_id]_vars
    /\ [][(last'.op = "delete_client" /\ last'.policy_id \in ClientKeys) =>
            /\ Len(clients_db') = Len(clients_db)
            /\ \A i \in DOMAIN clients_db :
                clients_db[i].client_id = last'.policy_id => clients_db'[i].is_active = FALSE]_vars
    /\ [][(last'.op = "toggle_client_status" /\ last'.policy_id \in ClientKeys) =>
            /\ Len(clients_db') = Len(clients_db)
            /\ \A i \in DOMAIN clients_db :
                clients_db[i].client_id = last'.policy_id =>
                    /\ clients_db'[i].is_active = ~clients_db[i].is_active
                    /\ (last.op = "delete_client" /\ last.policy_id = last'.policy_id)
                          => clients_db'[i].is_active = TRUE]_vars

\* a client active again after two requests: toggled twice, or deleted and
\* then toggled
C23_Witness ==
    /\ last.op = "toggle_client_status" /\ last.code = 200
    /\ Len(clients_db) = 1
    /\ clock = 3
    /\ Client(last.policy_id).is_active = TRUE
    /\ Client(last.policy_id).first_name = "Ann"

\* the records a list request is to return: those matching every filter that
\* was given, in store order, without the first skip of them, at most limit
MatchingPage(skip, limit, filters) ==
    LET Matches(p) ==
            /\ Truthy(filters.customer_id) => p.customer_id = filters.customer_id
            /\ Truthy(filters.policy_type) => p.policy_type = filters.policy_type
            /\ Truthy(filters.status) => p.status = filters.status
        matching == SelectSeq(policies_db, Matches)
        count == Min(limit, Len(matching) - skip)
    IN  [k \in 1..count |-> PolicyResponse(matching[skip + k])]

\* C24: get_policies with skip >= 0 and 1 <= limit <= 1000 answers with
\* exactly the records that match every given filter, in store order, the
\* first skip matches left out and at most limit returned, and leaves both
\* stores as they were.
C24_ListReturnsMatches ==
    [][\A skip \in Skips, limit \in Limits, filters \in PolicyFilters :
          ( /\ last'.op = "get_policies"
            /\ skip >= 0 /\ limit >= 1 /\ limit <= 1000
            /\ get_policies(skip, limit, filters) )
          => /\ last'.code = 200
             /\ last'.result = MatchingPage(skip, limit, filters)
             /\ UNCHANGED <<policies_db, claims_db>>]_vars

\* skip and limit as the three list endpoints are to accept them
PageInRange(skip, limit) == skip >= 0 /\ limit >= 1 /\ limit <= 1000

\* C25: the list endpoints of policies, clients and products refuse skip < 0
\* and limit outside 1..1000, and renew_policy refuses renewal_months outside
\* 1..60; the refusal is a 422 with no body and no store changes.
C25_OutOfRangeRejected ==
    [][/\ \A skip \in Skips, limit \in Limits :
            ( /\ ~PageInRange(skip, limit)
              /\ \/ \E filters \in PolicyFilters : get_policies(skip, limit, filters)
                 \/ \E is_active \in ActiveFilters : get_clients(skip, limit, is_active)
                 \/ \E filters \in ProductFilters : get_all_products(filters, skip, limit) )
            => /\ last'.code = 422
               /\ last'.result = NoResult
               /\ UNCHANGED <<policies_db, claims_db, clients_db, fake_products_db>>
       /\ \A policy_id \in PolicyIds, renewal_months \in RenewalMonthsSent :
            ( /\ renewal_months \notin AllRenewalMonths
              /\ renew_policy_request(policy_id, renewal_months) )
            => /\ last'.code = 422
               /\ last'.result = NoResult
               /\ UNCHANGED <<policies_db, claims_db, clients_db, fake_products_db>>]_vars

\* C27: every stored claim has status "pending" (so its status is one of
\* pending, approved, rejected); no step changes or removes a stored claim;
\* and every summary get_policy_summary returns reports as many pending
\* claims as claims in total and no approved claim.
C27_ClaimsStayPending ==
    /\ [](\A i \in DOMAIN claims_db :
            /\ claims_db[i].status = "pending"
            /\ claims_db[i].status \in {"pending", "approved", "rejected"})
    /\ [][/\ Len(claims_db') >= Len(claims_db)
          /\ \A i \in DOMAIN claims_db : claims_db'[i] = claims_db[i]]_vars
    /\ [](last.op = "get_policy_summary" /\ last.code = 200
            => /\ last.result.claims_summary.pending_claims
                    = last.result.claims_summary.total_claims
               /\ last.result.claims_summary.approved_claims = 0)

\* a summary over two stored claims of the policy
C27_Witness ==
    /\ last.op = "get_policy_summary"
    /\ last.code = 200
    /\ Len(claims_db) = 2
    /\ last.result.claims_summary.total_claims = 2
    /\ last.result.claims_summary.pending_claims = 2

\* C28: no step changes the id, policy_number, customer_id, start_date or
\* created_at of a stored policy or removes it; update_policy changes at most
\* policy_type, premium_amount, coverage_amount, end_date, status and
\* updated_at, renew_policy at most end_date and updated_at, delete_policy at
\* most status and updated_at, and each of the three leaves every record
\* other than the one with the given id as it was.
C28_FrameOfWrites ==
    [][\A i \in DOMAIN policies_db :
          /\ i \in DOMAIN policies_db'
          /\ LET before == policies_db[i]
                 after == policies_db'[i]
             IN  /\ after.id = before.id
                 /\ after.policy_number = before.policy_number
                 /\ after.customer_id = before.customer_id
                 /\ after.start_date = before.start_date
                 /\ after.created_at = before.created_at
                 /\ last'.op \in {"update_policy", "renew_policy", "delete_policy"}
                        /\ before.id # last'.policy_id
                    => after = before
                 /\ last'.op = "update_policy"
                    => after = [before EXCEPT !.policy_type = after.policy_type,
                                              !.premium_amount = after.premium_amount,
                                              !.coverage_amount = after.coverage_amount,
                                              !.end_date = after.end_date,
                                              !.status = after.status,
                                              !.updated_at = after.updated_at]
                 /\ last'.op = "renew_policy"
                    => after = [before EXCEPT !.end_date = after.end_date,
                                              !.updated_at = after.updated_at]
                 /\ last'.op = "delete_policy"
                    => after = [before EXCEPT !.status = after.status,
                                              !.updated_at = after.updated_at]
                 /\ last'.op \notin {"update_policy", "renew_policy", "delete_policy"}
                    => after = before]_vars

\* two policies are stored and the last request renewed one of them: its
\* end_date and updated_at moved, the other record was never written
C28_Witness ==
    /\ last.op = "renew_policy"
    /\ last.code = 200
    /\ Len(policies_db) = 2
    /\ Policy(last.policy_id).updated_at > Policy(last.policy_id).created_at
    /\ DateLt(<<2024, 1, 31>>, Policy(last.policy_id).end_date)
    /\ \E i \in DOMAIN policies_db :
          /\ policies_db[i].id # last.policy_id
          /\ policies_db[i].updated_at = policies_db[i].created_at

\* the number of calendar months by which the first policy's end date lies
\* after the second's, which is the end date both started with
MonthsRenewed ==
    (Policy(1).end_date[1] * 12 + Policy(1).end_date[2])
        - (Policy(2).end_date[1] * 12 + Policy(2).end_date[2])

\* C29, as claimed: after two renewals of m and n months, m + n <= 60, the
\* policy has the end date that one renewal of m + n months gives, whatever
\* the end date it started with.
C29_RenewalAdditive ==
    (Policy(1).updated_at >= 3 /\ MonthsRenewed <= MaxRenewalMonths)
        => Policy(1).end_date = AddMonths(Policy(2).end_date, MonthsRenewed)

\* C29, amended: successive renewals add up in the year and the month for
\* every starting end date; the day is that of the single renewal when the
\* starting day is at most the 28th, and otherwise it is at most that day
\* (2024-01-31 renewed by 1 and 1 ends 2024-03-29, by 2 it ends 2024-03-31).
C29_RenewalAdditiveUnclamped ==
    (Policy(1).updated_at >= 3 /\ MonthsRenewed <= MaxRenewalMonths)
        => LET once == AddMonths(Policy(2).end_date, MonthsRenewed)
           IN  /\ Policy(1).end_date[1] = once[1]
               /\ Policy(1).end_date[2] = once[2]
               /\ Policy(1).end_date[3] <= once[3]
               /\ Policy(2).end_date[3] <= 28 => Policy(1).end_date = once

\* the policy ending 2023-06-15 after two renewals that add up to 7 months
C29_Witness ==
    /\ last.op = "renew_policy" /\ last.code = 200
    /\ Policy(1).updated_at = 3
    /\ Policy(2).end_date = <<2023, 6, 15>>
    /\ Policy(1).end_date = <<2024, 1, 15>>

\* C30: the failures have a fixed precedence.  A create_policy with
\* start_date >= end_date and a policy_number that is already stored gets the
\* 400 of the dates, not the 409.  A create_claim on an unknown policy gets
\* 404; on a stored policy that is not active it gets the 400 of the status,
\* whatever the amount; on an active policy with an amount above the coverage
\* it gets the 400 of the coverage.  Each of these answers is the only one and
\* neither store changes.
C30_FailurePrecedence ==
    [][/\ last'.op = "create_policy" =>
            \A policy \in PolicyCreateInputs :
                ( /\ ~DateLt(policy.start_date, policy.end_date)
                  /\ \E i \in DOMAIN policies_db :
                        policies_db[i].policy_number = policy.policy_number
                  /\ create_policy(policy) )
                => /\ last'.code = 400
                   /\ last'.detail = "end date must be after start date"
                   /\ UNCHANGED <<policies_db, claims_db>>
       /\ last'.op = "create_claim" =>
            \A policy_id \in {last'.policy_id}, claim_request \in ClaimRequestInputs :
                create_claim(policy_id, claim_request)
                => /\ policy_id \notin PolicyKeys
                      => /\ last'.code = 404
                         /\ UNCHANGED <<policies_db, claims_db>>
                   /\ (policy_id \in PolicyKeys /\ Policy(policy_id).status # "active")
                      => /\ last'.code = 400
                         /\ last'.detail = "claims can only be created for active policies"
                         /\ UNCHANGED <<policies_db, claims_db>>
                   /\ ( /\ policy_id \in PolicyKeys
                        /\ Policy(policy_id).status = "active"
                        /\ Policy(policy_id).coverage_amount # NoneNum
                        /\ claim_request.claim_amount > Policy(policy_id).coverage_amount )
                      => /\ last'.code = 400
                         /\ last'.detail = "claim amount exceeds policy coverage limit"
                         /\ UNCHANGED <<policies_db, claims_db>>]_vars

\* a claim on a cancelled policy whose coverage of 500 is below the amounts
\* 1000 and 1001 was refused for the status, and no claim is stored
C30_Witness ==
    /\ last.op = "create_claim"
    /\ last.code = 400
    /\ last.detail = "claims can only be created for active policies"
    /\ Policy(last.policy_id).status = "cancelled"
    /\ Policy(last.policy_id).coverage_amount = 500
    /\ claims_db = <<>>

====
